---- MODULE Spec2Model ----
(***************************************************************************)
(* The expense ledger of main.py: the `expenses` table (SQLite, id INTEGER *)
(* PRIMARY KEY AUTOINCREMENT), init_db and the tool handlers that read and *)
(* write it.  Every handler opens its own connection, runs one statement   *)
(* and commits, so a handler is one atomic step on the table.              *)
(*                                                                         *)
(* TEXT values are sequences of character codes, compared the way SQLite's *)
(* default BINARY collation compares them (byte by byte, a proper prefix   *)
(* first).  Amounts are whole numbers of cents.  An optional Python        *)
(* argument is None (the empty set) or Some(v) (the singleton {v}).        *)
(***************************************************************************)
EXTENDS Integers, Sequences, FiniteSets, TLC

\* cap on the AUTOINCREMENT counter: no id beyond MaxSeq is handed out
MaxSeq == 3

-----------------------------------------------------------------------------
(* Values *)

None == {}
Some(v) == {v}
Val(x) == CHOOSE v \in x : TRUE

EmptyStr == << >>
\* The dates the callers pass: "2024-01-01", "2024-01-05" and
\* "2024-01-1" (day not zero-padded).  All start with "2024-01-"; only what
\* follows is kept, which leaves the comparison of any two of them as it is.
D20240101 == <<48, 49>>
D20240105 == <<48, 53>>
D2024011 == <<49>>
\* "Food", "Rent", "test", "s", "n"
Food == <<70, 111, 111, 100>>
Rent == <<82, 101, 110, 116>>
TestCategory == <<116, 101, 115, 116>>
SubS == <<115>>
NoteN == <<110>>

\* the row of init_db's write probe: ('2000-01-01', 0, 'test'), defaults ''
ProbeDate == <<50, 48, 48, 48, 45, 48, 49, 45, 48, 49>>
ProbeAmount == 0

\* arguments the callers pass
Dates == {D20240101, D20240105}
Amounts == {500, 1250}
Categories == {Food, TestCategory}
QueryDates == Dates \cup {D2024011}
QueryCategories == Categories \cup {Rent, EmptyStr}
ExpenseIds == 1..MaxSeq

Opt(S) == {None} \cup {Some(v) : v \in S}

-----------------------------------------------------------------------------
(* SQLite: text comparison, rowid assignment *)

Min(a, b) == IF a <= b THEN a ELSE b

\* BINARY collation: memcmp over the common length, then the shorter first
StrLess(a, b) ==
    \E i \in 1..(Min(Len(a), Len(b)) + 1) :
        /\ \A j \in 1..(i - 1) : a[j] = b[j]
        /\ \/ i > Len(a) /\ i <= Len(b)
           \/ i <= Len(a) /\ i <= Len(b) /\ a[i] < b[i]

StrLeq(a, b) == a = b \/ StrLess(a, b)

\* (variant: the upper end left out)
BetweenHalfOpen(x, lo, hi) == StrLeq(lo, x) /\ StrLess(x, hi)

\* x BETWEEN lo AND hi
Between(x, lo, hi) == StrLeq(lo, x) /\ StrLeq(x, hi)

MaxOf(S) == CHOOSE m \in S : \A x \in S : x <= m

\* (variant: the column declared without AUTOINCREMENT) one more than the
\* largest rowid now in the table
NextRowidNoAutoincrement(rows, seq) == MaxOf({0} \cup {r.id : r \in rows}) + 1

\* rowid of the next INSERT with AUTOINCREMENT: one more than the largest rowid
\* the table has ever held (sqlite_sequence.seq)
NextRowid(rows, seq) == MaxOf({seq} \cup {r.id : r \in rows}) + 1

Row(id, date, amount, category, subcategory, note) ==
    [id |-> id, date |-> date, amount |-> amount, category |-> category,
     subcategory |-> subcategory, note |-> note]

-----------------------------------------------------------------------------
(* Payloads *)

Payload(op, status, message, id, count, out) ==
    [op |-> op, status |-> status, message |-> message, id |-> id,
     count |-> count, out |-> out]

-----------------------------------------------------------------------------
(* Query evaluation *)

\* a full scan of the table visits the rows in rowid order
RECURSIVE ScanTable(_)
ScanTable(S) ==
    IF S = {} THEN << >>
    ELSE LET r == CHOOSE x \in S : \A y \in S : x.id <= y.id
         IN  <<r>> \o ScanTable(S \ {r})

\* WHERE id=?
MatchesId(r, expense_id) == r.id = expense_id

\* WHERE category=?
MatchesCategory(r, category) == r.category = category

\* (variant: a row is put before the rows of the same date)
InsertByDateBeforeEqual(sorted, r) ==
    LET k == Cardinality({i \in 1..Len(sorted) : StrLess(sorted[i].date, r.date)})
    IN  SubSeq(sorted, 1, k) \o <<r>> \o SubSeq(sorted, k + 1, Len(sorted))

\* the sorter puts a row after the rows already sorted that do not sort after it
InsertByDate(sorted, r) ==
    LET k == Cardinality({i \in 1..Len(sorted) : StrLeq(sorted[i].date, r.date)})
    IN  SubSeq(sorted, 1, k) \o <<r>> \o SubSeq(sorted, k + 1, Len(sorted))

\* ORDER BY date ASC over the scanned rows
RECURSIVE OrderByDate(_)
OrderByDate(s) ==
    IF s = << >> THEN << >>
    ELSE InsertByDate(OrderByDate(SubSeq(s, 1, Len(s) - 1)), s[Len(s)])

\* SUM(amount) over the rows of one group
RECURSIVE SumAmount(_)
SumAmount(S) ==
    IF S = {} THEN 0
    ELSE LET r == CHOOSE x \in S : TRUE
         IN  r.amount + SumAmount(S \ {r})

\* GROUP BY category ORDER BY category ASC: one output row per category of S
RECURSIVE GroupByCategory(_)
GroupByCategory(S) ==
    IF S = {} THEN << >>
    ELSE LET c == CHOOSE x \in {r.category : r \in S} :
                      \A y \in {r.category : r \in S} : StrLeq(x, y)
             g == {r \in S : r.category = c}
         IN  <<[category |-> c, total_amount |-> SumAmount(g)]>>
                 \o GroupByCategory(S \ g)

\* Python truth value of an optional text argument: None and '' are false
Truthy(x) == x # None /\ Val(x) # EmptyStr

\* `is not None`
Provided(x) == x # None

-----------------------------------------------------------------------------
(* init_db and the tool handlers: each yields the table after the call and  *)
(* the payload returned                                                     *)

Result(r, q, p) == [rows |-> r, seq |-> q, resp |-> p]

\* the DELETE of the write probe
ProbeDelete(S) == {r \in S : ~MatchesCategory(r, TestCategory)}

init_db(rows, seq) ==
    LET id == NextRowid(rows, seq)
        probe == Row(id, ProbeDate, ProbeAmount, TestCategory, EmptyStr, EmptyStr)
    IN  Result(ProbeDelete(rows \cup {probe}), id,
               Payload("init_db", "success",
                       "Database initialized successfully with write access",
                       0, 0, << >>))

add_expense(rows, seq, date, amount, category, subcategory, note) ==
    IF date = None \/ amount = None \/ category = None
    THEN Result(rows, seq,
                Payload("add_expense", "error",
                        "Database error: NOT NULL constraint failed", 0, 0, << >>))
    ELSE LET expense_id == NextRowid(rows, seq)
         IN  Result(rows \cup {Row(expense_id, Val(date), Val(amount),
                                   Val(category), subcategory, note)},
                    expense_id,
                    Payload("add_expense", "success", "Expense added successfully",
                            expense_id, 0, << >>))

get_all_expenses(rows, seq) ==
    Result(rows, seq,
           Payload("get_all_expenses", "rows", "", 0, 0,
                   OrderByDate(ScanTable(rows))))

list_expenses_by_date(rows, seq, start_date, end_date) ==
    Result(rows, seq,
           Payload("list_expenses_by_date", "rows", "", 0, 0,
                   OrderByDate(ScanTable(
                       {r \in rows : Between(r.date, start_date, end_date)}))))

summarize(rows, seq, start_date, end_date, category) ==
    LET inRange == {r \in rows : Between(r.date, start_date, end_date)}
        selected == IF Truthy(category)
                    THEN {r \in inRange : MatchesCategory(r, Val(category))}
                    ELSE inRange
    IN  Result(rows, seq,
               Payload("summarize", "rows", "", 0, 0, GroupByCategory(selected)))

\* (variant: either condition is enough)
MatchesIdOrCategory(r, expense_id, catogery) ==
    MatchesId(r, expense_id) \/ MatchesCategory(r, catogery)

\* WHERE id=? AND category=?
MatchesIdAndCategory(r, expense_id, catogery) ==
    MatchesId(r, expense_id) /\ MatchesCategory(r, catogery)

delete_expense_by_id_catogery(rows, seq, catogery, expense_id) ==
    LET hit == {r \in rows : MatchesIdAndCategory(r, expense_id, catogery)}
    IN  Result(rows \ hit, seq,
               IF Cardinality(hit) = 0
               THEN Payload("delete_expense_by_id_catogery", "error",
                            "No expense found with the given ID and category.",
                            0, 0, << >>)
               ELSE Payload("delete_expense_by_id_catogery", "success",
                            "Expense deleted successfully.", 0, Cardinality(hit), << >>))

delete_expense_by_id(rows, seq, expense_id) ==
    LET hit == {r \in rows : MatchesId(r, expense_id)}
    IN  Result(rows \ hit, seq,
               IF Cardinality(hit) = 0
               THEN Payload("delete_expense_by_id", "error",
                            "No expense found with the given ID.", 0, 0, << >>)
               ELSE Payload("delete_expense_by_id", "success",
                            "Expense deleted successfully.", 0, Cardinality(hit), << >>))

delete_expenses_by_category(rows, seq, category) ==
    LET hit == {r \in rows : MatchesCategory(r, category)}
    IN  Result(rows \ hit, seq,
               Payload("delete_expenses_by_category", "success",
                       "Deleted {rowcount} expenses in category", 0,
                       Cardinality(hit), << >>))

\* (variant: the truncate optimisation of old SQLite, which counted no row)
DeleteAllRowcountTruncate(rows) == 0

\* cur.rowcount of the DELETE without WHERE
DeleteAllRowcount(rows) == Cardinality(rows)

delete_all_expenses(rows, seq) ==
    Result({}, seq,
           Payload("delete_all_expenses", "success",
                   "Deleted all expenses ({rowcount} records).", 0,
                   DeleteAllRowcount(rows), << >>))

\* the fields list update_expense builds, in its order
UpdateFields(patch) ==
    SelectSeq(<<"date", "amount", "category", "subcategory", "note">>,
              LAMBDA f : Provided(patch[f]))

\* (variant: a text argument is tested for truth, as summarize tests category)
SetFieldsIfTruthy(r, patch) ==
    [f \in DOMAIN r |-> IF /\ f \in DOMAIN patch
                           /\ Provided(patch[f])
                           /\ (f = "amount" \/ Val(patch[f]) # EmptyStr)
                        THEN Val(patch[f]) ELSE r[f]]

\* UPDATE expenses SET <fields> on one row: a column is assigned when its
\* "column=?" was appended to fields
SetFields(r, patch) ==
    [f \in DOMAIN r |-> IF f \in DOMAIN patch /\ Provided(patch[f])
                        THEN Val(patch[f]) ELSE r[f]]

\* (variant: only the rows whose values changed are counted)
UpdateRowcountChanged(rows, expense_id, patch) ==
    Cardinality({r \in rows : MatchesId(r, expense_id) /\ SetFields(r, patch) # r})

\* cur.rowcount of the UPDATE: the rows the WHERE clause matched, changed or not
UpdateRowcount(rows, expense_id, patch) ==
    Cardinality({r \in rows : MatchesId(r, expense_id)})

update_expense(rows, seq, expense_id, patch) ==
    IF UpdateFields(patch) = << >>
    THEN Result(rows, seq,
                Payload("update_expense", "error", "No fields to update.",
                        0, 0, << >>))
    ELSE LET updated == {IF MatchesId(r, expense_id) THEN SetFields(r, patch) ELSE r :
                             r \in rows}
             rowcount == UpdateRowcount(rows, expense_id, patch)
         IN  Result(updated, seq,
                    IF rowcount = 0
                    THEN Payload("update_expense", "error",
                                 "No expense found with the given ID.", 0, 0, << >>)
                    ELSE Payload("update_expense", "success",
                                 "Expense updated successfully.", 0, rowcount, << >>))

\* the values update_expense is asked to write
NewDates == {D20240101}
NewAmounts == {1250}
NewCategories == {TestCategory}
NewSubcategories == {EmptyStr}
NewNotes == {EmptyStr}

\* the optional arguments of update_expense: each one passed or not
Patches ==
    [date : Opt(NewDates), amount : Opt(NewAmounts), category : Opt(NewCategories),
     subcategory : Opt(NewSubcategories), note : Opt(NewNotes)]

Patch(date, amount, category, subcategory, note) ==
    [date |-> date, amount |-> amount, category |-> category,
     subcategory |-> subcategory, note |-> note]

\* The calls of add_expense the clients make: any date (or none), amount and
\* category with subcategory and note left at their defaults, and one call
\* that passes both.
AddCalls ==
    [date : Opt(Dates), amount : {Some(a) : a \in Amounts},
     category : {Some(c) : c \in Categories},
     subcategory : {EmptyStr}, note : {EmptyStr}]
    \cup {Patch(Some(D20240101), Some(500), Some(Food), SubS, NoteN)}

\* The calls of update_expense the clients make, all of them in Patches: no
\* field, the date alone, an empty subcategory, an empty note, all five fields.
UpdateCalls ==
    {Patch(None, None, None, None, None),
     Patch(Some(D20240101), None, None, None, None),
     Patch(None, None, None, Some(EmptyStr), None),
     Patch(None, None, None, None, Some(EmptyStr)),
     Patch(Some(D20240101), Some(1250), Some(TestCategory), Some(EmptyStr),
           Some(EmptyStr))}

-----------------------------------------------------------------------------
(* State *)

VARIABLES
    rows,     \* the rows of table expenses
    seq,      \* sqlite_sequence.seq of table expenses
    resp,     \* what the last call returned
    issued    \* history: the ids add_expense has returned so far

vars == <<rows, seq, resp, issued>>

-----------------------------------------------------------------------------
(* The state machine *)

\* module load on a machine whose temporary directory holds no expenses.db:
\* init_db creates the table and its probe row takes rowid 1
Init ==
    /\ rows = init_db({}, 0).rows
    /\ seq = init_db({}, 0).seq
    /\ resp = init_db({}, 0).resp
    /\ issued = {}

Apply(r) ==
    /\ rows' = r.rows
    /\ seq' = r.seq
    /\ resp' = r.resp

\* the process is restarted: module load runs init_db on the existing file
InitDb ==
    /\ seq < MaxSeq
    /\ LET r == init_db(rows, seq)
       IN  Apply(r)
    /\ UNCHANGED issued

AddExpense(date, amount, category, subcategory, note) ==
    /\ seq < MaxSeq
    /\ LET r == add_expense(rows, seq, date, amount, category, subcategory, note)
       IN  /\ Apply(r)
           /\ issued' = IF r.resp.status = "success"
                        THEN issued \cup {r.resp.id} ELSE issued

GetAllExpenses ==
    /\ LET r == get_all_expenses(rows, seq)
       IN  Apply(r)
    /\ UNCHANGED issued

ListExpensesByDate(start_date, end_date) ==
    /\ LET r == list_expenses_by_date(rows, seq, start_date, end_date)
       IN  Apply(r)
    /\ UNCHANGED issued

Summarize(start_date, end_date, category) ==
    /\ LET r == summarize(rows, seq, start_date, end_date, category)
       IN  Apply(r)
    /\ UNCHANGED issued

DeleteExpenseByIdCatogery(catogery, expense_id) ==
    /\ LET r == delete_expense_by_id_catogery(rows, seq, catogery, expense_id)
       IN  Apply(r)
    /\ UNCHANGED issued

DeleteExpenseById(expense_id) ==
    /\ LET r == delete_expense_by_id(rows, seq, expense_id)
       IN  Apply(r)
    /\ UNCHANGED issued

DeleteExpensesByCategory(category) ==
    /\ LET r == delete_expenses_by_category(rows, seq, category)
       IN  Apply(r)
    /\ UNCHANGED issued

DeleteAllExpenses ==
    /\ LET r == delete_all_expenses(rows, seq)
       IN  Apply(r)
    /\ UNCHANGED issued

UpdateExpense(expense_id, patch) ==
    /\ LET r == update_expense(rows, seq, expense_id, patch)
       IN  Apply(r)
    /\ UNCHANGED issued

Next ==
    \/ InitDb
    \/ \E call \in AddCalls :
          AddExpense(call.date, call.amount, call.category, call.subcategory,
                     call.note)
    \/ GetAllExpenses
    \/ \E d1 \in QueryDates, d2 \in QueryDates : ListExpensesByDate(d1, d2)
    \/ \E d1 \in QueryDates, d2 \in QueryDates, c \in Opt(QueryCategories) :
          Summarize(d1, d2, c)
    \/ \E c \in QueryCategories, id \in ExpenseIds : DeleteExpenseByIdCatogery(c, id)
    \/ \E id \in ExpenseIds : DeleteExpenseById(id)
    \/ \E c \in QueryCategories : DeleteExpensesByCategory(c)
    \/ DeleteAllExpenses
    \/ \E id \in ExpenseIds, patch \in UpdateCalls : UpdateExpense(id, patch)

Spec == Init /\ [][Next]_vars

TypeOK ==
    /\ seq \in 1..MaxSeq
    /\ \A r \in rows : r.id \in 1..seq
    /\ issued \subseteq 1..seq

-----------------------------------------------------------------------------
(* Properties *)

HasId(S, id) == \E r \in S : r.id = id
HasCategory(S, c) == \E r \in S : r.category = c
InRange(r, d1, d2) == StrLeq(d1, r.date) /\ StrLeq(r.date, d2)
SomeField(patch) == \E f \in DOMAIN patch : patch[f] # None
RowOf(S, id) == CHOOSE r \in S : r.id = id

\* C1: every id a successful add_expense returns is different from, and greater
\* than, every id an earlier add_expense returned, whatever was deleted or
\* re-initialised in between.
C1_IdsNeverReused ==
    [][(resp'.op = "add_expense" /\ resp'.status = "success")
          => /\ resp'.id \notin issued
             /\ \A i \in issued : i < resp'.id
             /\ HasId(rows', resp'.id) /\ ~HasId(rows, resp'.id)]_vars

\* add_expense has returned an id after the record of an earlier id was deleted
C1_Witness ==
    /\ resp.op = "add_expense" /\ resp.status = "success"
    /\ \E i \in issued : i < resp.id /\ ~HasId(rows, i)

\* C2: on a store just initialised and empty, the first add_expense
\* ("2024-01-05", Food) returns id 1 and the second ("2024-01-01", Food) id 2;
\* get_all_expenses then lists id 2 before id 1 and
\* summarize("2024-01-01", "2024-01-05") is the one row (Food, sum of both).
C2_ExampleIds ==
    [][/\ (/\ resp.op = "init_db" /\ rows = {}
           /\ resp'.op = "add_expense" /\ resp'.status = "success"
           /\ \E r \in rows' : r.date = D20240105 /\ r.category = Food)
          => resp'.id = 1
       /\ (/\ resp.op = "add_expense" /\ resp.status = "success"
           /\ issued = {resp.id} /\ Cardinality(rows) = 1
           /\ \A r \in rows :
                 r.id = resp.id /\ r.date = D20240105 /\ r.category = Food
           /\ resp'.op = "add_expense" /\ resp'.status = "success"
           /\ \E r \in rows' \ rows : r.date = D20240101 /\ r.category = Food)
          => /\ resp.id = 1 /\ resp'.id = 2
             /\ LET out == get_all_expenses(rows', seq').resp.out
                IN  Len(out) = 2 /\ out[1].id = 2 /\ out[2].id = 1
             /\ summarize(rows', seq', D20240101, D20240105, None).resp.out
                    = <<[category |-> Food, total_amount |-> SumAmount(rows')]>>]_vars

\* C3: list_expenses_by_date(d1, d2) returns exactly the records of
\* get_all_expenses() whose date lies in [d1, d2], both ends included, and
\* neither read changes the table.
C3_DateRangeIsFilterOfAll ==
    \A d1 \in QueryDates, d2 \in QueryDates :
        LET l == list_expenses_by_date(rows, seq, d1, d2)
            g == get_all_expenses(rows, seq)
        IN  /\ l.resp.out = SelectSeq(g.resp.out, LAMBDA r : InRange(r, d1, d2))
            /\ l.rows = rows /\ l.seq = seq
            /\ g.rows = rows /\ g.seq = seq

\* list_expenses_by_date has returned some but not all of the stored records,
\* one of them dated at the upper end of a range
C3_Witness ==
    /\ resp.op = "list_expenses_by_date"
    /\ Len(resp.out) >= 1 /\ Len(resp.out) < Cardinality(rows)
    /\ \E r \in rows : r.date = D20240105 /\ resp.out[Len(resp.out)] = r

\* C4: summarize without a category returns one row per category that has a
\* record in range, its total the sum of that category's amounts in range;
\* summarize with any supplied category (also one no record has, also the
\* empty string) returns at most one row, and that row is for that category.
C4_SummarizeRows ==
    \A d1 \in QueryDates, d2 \in QueryDates :
        LET inRange == {r \in rows : InRange(r, d1, d2)}
            all == summarize(rows, seq, d1, d2, None).resp.out
        IN  /\ {all[i].category : i \in 1..Len(all)} = {r.category : r \in inRange}
            /\ Len(all) = Cardinality({r.category : r \in inRange})
            /\ \A i \in 1..Len(all) :
                   all[i].total_amount
                       = SumAmount({r \in inRange : r.category = all[i].category})
            /\ \A c \in QueryCategories :
                   LET one == summarize(rows, seq, d1, d2, Some(c)).resp.out
                   IN  /\ Len(one) <= 1
                       /\ \A i \in 1..Len(one) : one[i].category = c

\* C5: update_expense with no field fails with "No fields to update." whether
\* or not the id exists; with a field and an id no record has it fails with
\* not-found; with the id of a record and the values already stored it
\* succeeds and one row is affected.
C5_UpdateOutcomes ==
    \A id \in ExpenseIds, patch \in Patches :
        LET r == update_expense(rows, seq, id, patch)
        IN  /\ ~SomeField(patch)
                  => r.resp.status = "error" /\ r.resp.message = "No fields to update."
            /\ (SomeField(patch) /\ ~HasId(rows, id))
                  => /\ r.resp.status = "error"
                     /\ r.resp.message = "No expense found with the given ID."
            /\ (/\ SomeField(patch) /\ HasId(rows, id)
                /\ \A f \in DOMAIN patch :
                      patch[f] # None => Val(patch[f]) = RowOf(rows, id)[f])
                  => r.resp.status = "success" /\ r.resp.count = 1 /\ r.rows = rows

\* update_expense has been refused for naming no field while records are stored
C5_Witness ==
    /\ resp.op = "update_expense" /\ resp.message = "No fields to update."
    /\ rows # {}

\* C6: delete_expense_by_id of an id no record has fails with not-found;
\* delete_expenses_by_category of a category no record has succeeds with
\* count 0; delete_all_expenses always succeeds with the number of records
\* removed, so a second delete_all_expenses right after succeeds with count 0.
C6_DeleteOutcomes ==
    /\ \A id \in ExpenseIds :
           ~HasId(rows, id)
              => LET r == delete_expense_by_id(rows, seq, id)
                 IN  /\ r.resp.status = "error"
                     /\ r.resp.message = "No expense found with the given ID."
    /\ \A c \in QueryCategories :
           ~HasCategory(rows, c)
              => LET r == delete_expenses_by_category(rows, seq, c)
                 IN  r.resp.status = "success" /\ r.resp.count = 0
    /\ LET first == delete_all_expenses(rows, seq)
           second == delete_all_expenses(first.rows, first.seq)
       IN  /\ first.resp.status = "success"
           /\ first.resp.count = Cardinality(rows)
           /\ first.rows = {}
           /\ second.resp.status = "success" /\ second.resp.count = 0

\* delete_all_expenses has run on a table it or another delete had emptied
C6_Witness ==
    /\ resp.op = "delete_all_expenses" /\ resp.status = "success"
    /\ resp.count = 0 /\ issued # {}

\* C7: get_all_expenses returns every stored record exactly once, ascending by
\* date, records of one date in ascending id order.
C7_AllOrderedByDateThenId ==
    LET out == get_all_expenses(rows, seq).resp.out
    IN  /\ Len(out) = Cardinality(rows)
        /\ {out[i] : i \in 1..Len(out)} = rows
        /\ \A i \in 1..Len(out), j \in 1..Len(out) :
               i < j => \/ StrLess(out[i].date, out[j].date)
                        \/ out[i].date = out[j].date /\ out[i].id < out[j].id

\* get_all_expenses has returned two records of one date
C7_Witness ==
    /\ resp.op = "get_all_expenses"
    /\ \E i \in 1..Len(resp.out), j \in 1..Len(resp.out) :
           i < j /\ resp.out[i].date = resp.out[j].date

\* C8: a successful update_expense writes exactly the provided fields (an
\* empty string included) on the record of that id and leaves its id, its
\* other fields, every other record and the number of records unchanged.
C8_UpdateFrame ==
    \A id \in ExpenseIds, patch \in Patches :
        LET r == update_expense(rows, seq, id, patch)
        IN  r.resp.status = "success"
              => /\ Cardinality(r.rows) = Cardinality(rows)
                 /\ {x.id : x \in r.rows} = {x.id : x \in rows}
                 /\ \A x \in rows : x.id # id => x \in r.rows
                 /\ \A f \in DOMAIN patch :
                        RowOf(r.rows, id)[f]
                            = IF patch[f] # None THEN Val(patch[f])
                              ELSE RowOf(rows, id)[f]

\* update_expense has succeeded while another record was stored, and the record
\* it wrote has an empty subcategory
C8_Witness ==
    /\ resp.op = "update_expense" /\ resp.status = "success"
    /\ Cardinality(rows) >= 2
    /\ \E x \in rows : x.subcategory = EmptyStr /\ x.note = NoteN

\* C9: a call that returns an error leaves the table as it was: update_expense
\* with no field or an unknown id, delete_expense_by_id with an unknown id,
\* delete_expense_by_id_catogery when no record has the id or the record of
\* that id has another category; delete_expense_by_id_catogery removes a record
\* only when id and category both match, and then only that record.
C9_ErrorsChangeNothing ==
    /\ \A id \in ExpenseIds, patch \in Patches :
           LET r == update_expense(rows, seq, id, patch)
           IN  /\ r.resp.status = "error" => r.rows = rows /\ r.seq = seq
               /\ (~SomeField(patch) \/ ~HasId(rows, id)) => r.resp.status = "error"
    /\ \A id \in ExpenseIds :
           LET r == delete_expense_by_id(rows, seq, id)
           IN  /\ r.resp.status = "error" => r.rows = rows /\ r.seq = seq
               /\ ~HasId(rows, id) => r.resp.status = "error"
    /\ \A c \in QueryCategories, id \in ExpenseIds :
           LET r == delete_expense_by_id_catogery(rows, seq, c, id)
               both == {x \in rows : x.id = id /\ x.category = c}
           IN  /\ r.resp.status = "error" => r.rows = rows /\ r.seq = seq
               /\ both = {} => r.resp.status = "error"
               /\ r.rows = rows \ both
               /\ Cardinality(both) <= 1

\* delete_expense_by_id_catogery has been refused while records are stored
C9_Witness ==
    /\ resp.op = "delete_expense_by_id_catogery" /\ resp.status = "error"
    /\ rows # {}

\* C10: running init_db again leaves every stored record unchanged and present,
\* whatever its category; the probe removes only the row it inserted.
C10_InitDbKeepsRecords == init_db(rows, seq).rows = rows

====
